---- MODULE Spec2Model ----
(***************************************************************************)
(* Hotel maintenance store (src/AppContext.tsx): tickets, parts, purchase  *)
(* orders and the movement ledger, with the commands of AppProvider.       *)
(*                                                                         *)
(* Representation                                                          *)
(*  - ids are the numeric part the code parses in nextId ("T-1001" is      *)
(*    1001, "OC-1" is 1, "M-3" is 3); 0 stands for an absent id.           *)
(*  - part ids are strings; "" stands for an absent partId (falsy in JS).  *)
(*  - an absent partQty is 0 (falsy in JS).                                *)
(*  - quantities handed to a command are in tenths (25 is 2.5), so that    *)
(*    Math.floor and Math.trunc do something.                              *)
(*  - time is counted in ticks, TicksPerDay of them in a day.              *)
(*  - every command runs on a fresh render: the `tickets', `parts' and     *)
(*    `pos' a handler closes over are the current state.                   *)
(*  - ticket fields the store never reads (roomNumber, asset, notes, ...)  *)
(*    are left out.                                                        *)
(*  - `last' is the command just run with what it returned; `steps' counts *)
(*    the commands run so far and stops the exploration at MaxSteps.       *)
(***************************************************************************)
EXTENDS Integers, Sequences, FiniteSets, TLC

VARIABLES role, tickets, parts, pos, movements, now, last, steps

vars == <<role, tickets, parts, pos, movements, now, last, steps>>

(***************************************************************************)
(* Bounds of the exploration                                               *)
(***************************************************************************)
MaxSteps == 3

(***************************************************************************)
(* Enumerations (src/types.ts)                                             *)
(***************************************************************************)
MANAGEMENT == "Gerencia (Marc)"
CLEANING == "Limpieza"
RECEPTION == "Recepcion"
MAINTENANCE == "Mantenimiento"
Role == {MANAGEMENT, CLEANING, RECEPTION, MAINTENANCE}

Urgency == {"LOW", "MEDIUM", "HIGH"}
Impact == {"NONE", "ANNOYING", "BLOCKING"}
TicketStatus == {"OPEN", "IN_PROGRESS", "WAITING_PART", "VENDOR", "RESOLVED", "VERIFIED"}
POStatus == {"DRAFT", "ORDERED", "RECEIVED", "CANCELED"}

TicksPerDay == 10

(***************************************************************************)
(* Generic helpers                                                         *)
(***************************************************************************)
Max2(a, b) == IF a >= b THEN a ELSE b
Min2(a, b) == IF a <= b THEN a ELSE b

RECURSIVE SeqMax(_, _)
\* ids.reduce((m, id) => Math.max(m, n), start)
SeqMax(s, start) ==
  IF s = <<>> THEN start ELSE SeqMax(Tail(s), Max2(start, Head(s)))

Ids(s) == [i \in DOMAIN s |-> s[i].id]

nextId(existingIds, start) == SeqMax(existingIds, start) + 1
nextTicketId(tks) == nextId(Ids(tks), 1000)
nextMovementId(movs) == nextId(Ids(movs), 0)
nextPOId(ps) == nextId(Ids(ps), 0)

\* mutant: no clamp
clampNonNeg_identity(n) == n

\* Number.isFinite(n) ? Math.max(0, n) : 0   (every modelled number is finite)
clampNonNeg(n) == IF n > 0 THEN n ELSE 0

\* Math.floor and Math.trunc of a number given in tenths
FloorTenths(x) == x \div 10
TruncTenths(x) == IF x >= 0 THEN x \div 10 ELSE -((-x) \div 10)

\* Math.max(1, Math.floor(qty || 1))
normQty(qty10) == Max2(1, FloorTenths(IF qty10 = 0 THEN 10 ELSE qty10))

\* Array.prototype.find: index of the first element with the id, 0 if none
RECURSIVE FindFrom(_, _, _)
FindFrom(s, id, i) ==
  IF i > Len(s) THEN 0
  ELSE IF s[i].id = id THEN i ELSE FindFrom(s, id, i + 1)
Find(s, id) == FindFrom(s, id, 1)

(***************************************************************************)
(* utils.ts                                                                *)
(***************************************************************************)
\* mutant: every urgency counts as LOW
urgencyPoints_flat(u) == 10

urgencyPoints(u) == IF u = "HIGH" THEN 50 ELSE IF u = "MEDIUM" THEN 30 ELSE IF u = "LOW" THEN 10 ELSE 0
impactPoints(i) == IF i = "BLOCKING" THEN 40 ELSE IF i = "ANNOYING" THEN 20 ELSE 0
occupancyPoints(o) == IF o THEN 30 ELSE 0

\* score = base + min(daysOpen * 5, 30), daysOpen = (at - createdAt) / TicksPerDay;
\* Math.round is floor(x + 1/2).  Everything is scaled by 2 * TicksPerDay.
calculatePriority(t, at) ==
  IF t.status = "RESOLVED" \/ t.status = "VERIFIED" THEN 0
  ELSE LET base == urgencyPoints(t.urgency) + impactPoints(t.impact) + occupancyPoints(t.isOccupied)
           age10 == Min2((at - t.createdAt) * 10, 60 * TicksPerDay)
       IN  (2 * TicksPerDay * base + age10 + TicksPerDay) \div (2 * TicksPerDay)

getAvailableStock(part) == clampNonNeg(part.stockOnHand - part.stockReserved)

(***************************************************************************)
(* Seed data (constants.ts)                                                *)
(***************************************************************************)
PartName(pid) == IF pid = "P-003" THEN "Foco LED" ELSE IF pid = "P-005" THEN "Empaque" ELSE ""

INITIAL_PARTS ==
  << [id |-> "P-003", name |-> PartName("P-003"), stockOnHand |-> 1, stockReserved |-> 0],
     [id |-> "P-005", name |-> PartName("P-005"), stockOnHand |-> 3, stockReserved |-> 0] >>

SeedTicket(id, st, u, i, occ, created) ==
  [id |-> id, status |-> st, urgency |-> u, impact |-> i, isOccupied |-> occ,
   createdAt |-> created, needsPart |-> FALSE, partId |-> "", partName |-> "", partQty |-> 0,
   needsVendor |-> FALSE, poId |-> 0,
   history |-> << [date |-> created, action |-> "Ticket Creado", user |-> RECEPTION] >>,
   priorityScore |-> 0]

INITIAL_TICKETS ==
  << SeedTicket(1002, "IN_PROGRESS", "MEDIUM", "ANNOYING", TRUE, -4),
     SeedTicket(1001, "OPEN", "LOW", "NONE", FALSE, -70) >>

INITIAL_POS ==
  << [id |-> 2, status |-> "ORDERED", createdBy |-> MANAGEMENT,
      items |-> << [partId |-> "P-005", qty |-> 1] >>],
     [id |-> 1, status |-> "CANCELED", createdBy |-> MANAGEMENT,
      items |-> << [partId |-> "P-003", qty |-> 1] >>] >>

(***************************************************************************)
(* Permissions (useMemo over role)                                         *)
(***************************************************************************)
canReserve(r) == r = MANAGEMENT \/ r = MAINTENANCE
\* mutant: every role may order
canCreatePO_anyone(r) == TRUE
canCreatePO(r) == r = MANAGEMENT
canAdjustStock(r) == r = MANAGEMENT

(***************************************************************************)
(* The store as one value, and the result of a handler                     *)
(***************************************************************************)
createAudit(user, action, at) == [date |-> at, action |-> action, user |-> user]

\* mutant: the patch is dropped
Merge_keep(t, updates) == t

\* { ...t, ...updates }: a patch is a record, its fields override the ticket's
Merge(t, updates) ==
  [f \in DOMAIN t |-> IF f \in DOMAIN updates THEN updates[f] ELSE t[f]]

\* mutant: the score is not recomputed
patchTicket_noRecompute(t, updates, user, action, at) ==
  LET merged == Merge(t, updates)
  IN  [merged EXCEPT !.history = Append(merged.history, createAudit(user, action, at))]

\* the mapper of updateTicket / updateTicketAs
patchTicket(t, updates, user, action, at) ==
  LET merged == Merge(t, updates)
      withHist == [merged EXCEPT !.history = Append(merged.history, createAudit(user, action, at))]
  IN  [withHist EXCEPT !.priorityScore = calculatePriority(withHist, at)]

updateTicketAs(tks, user, id, updates, action, at) ==
  [i \in DOMAIN tks |-> IF tks[i].id # id THEN tks[i]
                        ELSE patchTicket(tks[i], updates, user, action, at)]

updateTicket(tks, id, updates, action, at) ==
  updateTicketAs(tks, role, id, updates, action, at)

\* setMovements(prev => [{...m, id, date, user: role}, ...prev])
addMovement(movs, m, at) ==
  << [id |-> nextMovementId(movs), partId |-> m.partId, type |-> m.type, qty |-> m.qty,
      date |-> at, user |-> role, note |-> m.note, ticketId |-> m.ticketId, poId |-> m.poId] >>
  \o movs

Mov(pid, type, qty, note, tid, poid) ==
  [partId |-> pid, type |-> type, qty |-> qty, note |-> note, ticketId |-> tid, poId |-> poid]

Result(tks, ps, os, ms, ok, msg) ==
  [tickets |-> tks, parts |-> ps, pos |-> os, movements |-> ms,
   ret |-> [ok |-> ok, message |-> msg]]

\* an early `return { ok: false, message }': nothing has been written yet
Fail(msg) == Result(tickets, parts, pos, movements, FALSE, msg)

\* parts.find(p => p.id === partId): index, 0 if none
FindPart(ps, pid) == Find(ps, pid)

(***************************************************************************)
(* Writes to the parts array (the setParts updaters)                       *)
(***************************************************************************)
\* mutant: the release leaves one unit reserved
releaseStock_keepsOne(ps, pid, qty) ==
  [i \in DOMAIN ps |-> IF ps[i].id # pid THEN ps[i]
                       ELSE [ps[i] EXCEPT !.stockReserved = clampNonNeg(ps[i].stockReserved - qty + 1)]]

\* prev.map(p => p.id !== id ? p : {...p, stockReserved: clampNonNeg(p.stockReserved - qty)})
releaseStock(ps, pid, qty) ==
  [i \in DOMAIN ps |-> IF ps[i].id # pid THEN ps[i]
                       ELSE [ps[i] EXCEPT !.stockReserved = clampNonNeg(ps[i].stockReserved - qty)]]

\* mutant: one unit is reserved whatever the quantity
reserveStock_one(ps, pid, q) ==
  [i \in DOMAIN ps |-> IF ps[i].id = pid
                       THEN [ps[i] EXCEPT !.stockReserved = ps[i].stockReserved + 1]
                       ELSE ps[i]]

\* prev.map(p => p.id === partId ? {...p, stockReserved: p.stockReserved + q} : p)
reserveStock(ps, pid, q) ==
  [i \in DOMAIN ps |-> IF ps[i].id = pid
                       THEN [ps[i] EXCEPT !.stockReserved = ps[i].stockReserved + q]
                       ELSE ps[i]]

\* mutant: the issue forgets stockOnHand
issueStock_reservedOnly(ps, pid, q) ==
  [i \in DOMAIN ps |-> IF ps[i].id # pid THEN ps[i]
                       ELSE [ps[i] EXCEPT !.stockReserved = clampNonNeg(ps[i].stockReserved - q)]]

\* mutant: the issue keeps the reservation
issueStock_onHandOnly(ps, pid, q) ==
  [i \in DOMAIN ps |-> IF ps[i].id # pid THEN ps[i]
                       ELSE [ps[i] EXCEPT !.stockOnHand = clampNonNeg(ps[i].stockOnHand - q)]]

\* issue: both quantities go down by q, each clamped on its own
issueStock(ps, pid, q) ==
  [i \in DOMAIN ps |-> IF ps[i].id # pid THEN ps[i]
                       ELSE [ps[i] EXCEPT !.stockReserved = clampNonNeg(ps[i].stockReserved - q),
                                          !.stockOnHand = clampNonNeg(ps[i].stockOnHand - q)]]

\* po.items.find(i => i.partId === p.id): index of the first line item of the part
RECURSIVE FindItemFrom(_, _, _)
FindItemFrom(items, pid, i) ==
  IF i > Len(items) THEN 0
  ELSE IF items[i].partId = pid THEN i ELSE FindItemFrom(items, pid, i + 1)

\* mutant: nothing is credited
receiveStock_nothing(ps, po) == ps

receiveStock(ps, po) ==
  [i \in DOMAIN ps |->
     LET k == FindItemFrom(po.items, ps[i].id, 1)
     IN  IF k = 0 THEN ps[i]
         ELSE [ps[i] EXCEPT !.stockOnHand = ps[i].stockOnHand + po.items[k].qty]]

adjustStockOnHand(ps, pid, delta) ==
  [i \in DOMAIN ps |-> IF ps[i].id # pid THEN ps[i]
                       ELSE [ps[i] EXCEPT !.stockOnHand = clampNonNeg(ps[i].stockOnHand + delta)]]

(***************************************************************************)
(* Guards of the inventory handlers                                        *)
(***************************************************************************)
\* mutant: the reserved quantity is not subtracted
reserveAvailable_onHandOnly(part) == clampNonNeg(part.stockOnHand)

\* line 293: const available = clampNonNeg(part.stockOnHand - part.stockReserved)
reserveAvailable(part) == clampNonNeg(part.stockOnHand - part.stockReserved)

\* mutant: the old reservation is never looked at
hadPriorPart_never(ticket) == FALSE

\* line 302: ticket.partId && ticket.partQty && ticket.partQty > 0
hadPriorPart(ticket) == ticket.partId # "" /\ ticket.partQty # 0 /\ ticket.partQty > 0

\* lines 353 and 384: !(!ticket.partId || !ticket.partQty)
hasPartLink(ticket) == ticket.partId # "" /\ ticket.partQty # 0

\* mutant: the guard is gone
alreadyReceived_never(po) == FALSE

\* line 471: po.status === POStatus.RECEIVED
alreadyReceived(po) == po.status = "RECEIVED"

(***************************************************************************)
(* reservePartForTicket                                                    *)
(***************************************************************************)
\* one call of the handler.  Its guards, `ticket' and `part' read the arrays
\* of the render that created the closure (snapTks, snapPs); its functional
\* updaters are applied to the arrays as they are by then (tks, ps, ms).
reserveCall(snapTks, snapPs, tks, ps, ms, ticketId, partId, qty10) ==
  LET failed(msg) == Result(tks, ps, pos, ms, FALSE, msg) IN
  IF ~canReserve(role) THEN failed("Permiso insuficiente")
  ELSE
    LET q == normQty(qty10)
        ti == Find(snapTks, ticketId)
        pi == FindPart(snapPs, partId)
    IN
    IF ti = 0 THEN failed("Ticket no encontrado")
    ELSE IF pi = 0 THEN failed("Refaccion no encontrada")
    ELSE
      LET ticket == snapTks[ti]
          part == snapPs[pi]
          available == reserveAvailable(part)
      IN
      IF available < q THEN failed("Stock insuficiente")
      ELSE
        LET prior == hadPriorPart(ticket)
            parts1 == IF prior THEN releaseStock(ps, ticket.partId, ticket.partQty) ELSE ps
            movs1 == IF prior
                     THEN addMovement(ms,
                            Mov(ticket.partId, "RELEASE", ticket.partQty, "Cambio de refaccion", ticketId, 0), now)
                     ELSE ms
            parts2 == reserveStock(parts1, partId, q)
            tks2 == updateTicket(tks, ticketId,
                      [needsPart |-> TRUE, status |-> "WAITING_PART", partId |-> partId,
                       partName |-> part.name, partQty |-> q],
                      "Reservada refaccion", now)
            movs2 == addMovement(movs1, Mov(partId, "RESERVE", q, "Reserva para ticket", ticketId, 0), now)
        IN  Result(tks2, parts2, pos, movs2, TRUE, "Refaccion reservada correctamente")

\* a call made after the render that followed the last write: the snapshot is
\* the current state
reservePartForTicket(ticketId, partId, qty10) ==
  reserveCall(tickets, parts, tickets, parts, movements, ticketId, partId, qty10)

(***************************************************************************)
(* releaseReservationForTicket                                             *)
(***************************************************************************)
\* mutant: the release also forgets which part the ticket was linked to
releaseReservationForTicket_clearsLink(ticketId, note) ==
  IF ~canReserve(role) THEN Fail("Permiso insuficiente")
  ELSE
    LET ti == Find(tickets, ticketId) IN
    IF ti = 0 THEN Fail("Ticket no encontrado")
    ELSE
      LET ticket == tickets[ti] IN
      IF ~hasPartLink(ticket) THEN Fail("Este ticket no tiene refaccion reservada")
      ELSE
        LET parts1 == releaseStock(parts, ticket.partId, ticket.partQty)
            movs1 == addMovement(movements,
                       Mov(ticket.partId, "RELEASE", ticket.partQty,
                           IF note # "" THEN note ELSE "Liberacion de reserva", ticketId, 0), now)
            tks1 == updateTicket(tickets, ticketId,
                      [needsPart |-> FALSE, partId |-> "", partName |-> "", partQty |-> 0],
                      "Reserva liberada", now)
        IN  Result(tks1, parts1, pos, movs1, TRUE, "Reserva liberada correctamente")

releaseReservationForTicket(ticketId, note) ==
  IF ~canReserve(role) THEN Fail("Permiso insuficiente")
  ELSE
    LET ti == Find(tickets, ticketId) IN
    IF ti = 0 THEN Fail("Ticket no encontrado")
    ELSE
      LET ticket == tickets[ti] IN
      IF ~hasPartLink(ticket) THEN Fail("Este ticket no tiene refaccion reservada")
      ELSE
        LET parts1 == releaseStock(parts, ticket.partId, ticket.partQty)
            movs1 == addMovement(movements,
                       Mov(ticket.partId, "RELEASE", ticket.partQty,
                           IF note # "" THEN note ELSE "Liberacion de reserva", ticketId, 0), now)
            tks1 == updateTicket(tickets, ticketId, [needsPart |-> FALSE], "Reserva liberada", now)
        IN  Result(tks1, parts1, pos, movs1, TRUE, "Reserva liberada correctamente")

(***************************************************************************)
(* issueReservedPartForTicket                                              *)
(***************************************************************************)
issueReservedPartForTicket(ticketId, note) ==
  IF ~canReserve(role) THEN Fail("Permiso insuficiente")
  ELSE
    LET ti == Find(tickets, ticketId) IN
    IF ti = 0 THEN Fail("Ticket no encontrado")
    ELSE
      LET ticket == tickets[ti] IN
      IF ~hasPartLink(ticket) THEN Fail("Este ticket no tiene refaccion vinculada")
      ELSE
        LET pi == FindPart(parts, ticket.partId) IN
        IF pi = 0 THEN Fail("Refaccion no encontrada")
        ELSE
          \* partQty is stored as a whole number: Math.max(1, Math.floor(partQty || 1))
          LET q == Max2(1, ticket.partQty)
              parts1 == issueStock(parts, ticket.partId, q)
              movs1 == addMovement(movements,
                         Mov(ticket.partId, "ISSUE", q,
                             IF note # "" THEN note ELSE "Salida a mantenimiento", ticketId, 0), now)
              tks1 == updateTicket(tickets, ticketId, [needsPart |-> FALSE], "Refaccion utilizada", now)
          IN  Result(tks1, parts1, pos, movs1, TRUE, "Refaccion marcada como consumida")

(***************************************************************************)
(* createPOForPart                                                         *)
(***************************************************************************)
createPOForPart(partId, qty10, ticketId) ==
  IF ~canCreatePO(role) THEN Fail("Solo Gerencia puede generar OC")
  ELSE
    LET pi == FindPart(parts, partId) IN
    IF pi = 0 THEN Fail("Refaccion no encontrada")
    ELSE
      LET part == parts[pi]
          q == normQty(qty10)
          newPO == [id |-> nextPOId(pos), status |-> "ORDERED", createdBy |-> role,
                    items |-> << [partId |-> part.id, qty |-> q] >>]
          pos1 == <<newPO>> \o pos
          movs1 == addMovement(movements,
                     Mov(part.id, "PO_CREATED", q, "OC creada", ticketId, newPO.id), now)
          tks1 == IF ticketId # 0
                  THEN updateTicket(tickets, ticketId, [poId |-> newPO.id], "OC vinculada", now)
                  ELSE tickets
      IN  Result(tks1, parts, pos1, movs1, TRUE, "OC generada")

(***************************************************************************)
(* receivePO                                                               *)
(***************************************************************************)
RECURSIVE receiveMovements(_, _, _, _)
\* po.items.forEach(item => addMovement({type: 'RECEIVE', ...}))
receiveMovements(movs, po, k, at) ==
  IF k > Len(po.items) THEN movs
  ELSE receiveMovements(
         addMovement(movs, Mov(po.items[k].partId, "RECEIVE", po.items[k].qty, "Recepcion OC", 0, po.id), at),
         po, k + 1, at)

RECURSIVE SumQty(_)
\* po.items.reduce((s, i) => s + i.qty, 0)
SumQty(items) == IF items = <<>> THEN 0 ELSE Head(items).qty + SumQty(Tail(items))

\* lines 473-503: what receivePO writes once its guards have passed
receiveWrites(po) ==
  LET parts1 == receiveStock(parts, po)
      movs1 == receiveMovements(movements, po, 1, now)
      pos1 == [i \in DOMAIN pos |-> IF pos[i].id = po.id
                                    THEN [pos[i] EXCEPT !.status = "RECEIVED"]
                                    ELSE pos[i]]
      movs2 == addMovement(movs1,
                 Mov(IF po.items # <<>> THEN po.items[1].partId ELSE "P-000",
                     "PO_RECEIVED", SumQty(po.items), "OC marcada como Recibida", 0, po.id), now)
  IN  Result(tickets, parts1, pos1, movs2, TRUE, "OC recibida y stock actualizado")

\* mutant: the RECEIVED guard is evaluated after the writes
receivePO_guardAfterWrites(poId) ==
  IF ~canCreatePO(role) THEN Fail("Solo Gerencia puede recibir OC")
  ELSE
    LET oi == Find(pos, poId) IN
    IF oi = 0 THEN Fail("OC no encontrada")
    ELSE IF alreadyReceived(pos[oi])
         THEN [receiveWrites(pos[oi]) EXCEPT !.ret = [ok |-> FALSE, message |-> "Esta OC ya fue recibida"]]
         ELSE receiveWrites(pos[oi])

receivePO(poId) ==
  IF ~canCreatePO(role) THEN Fail("Solo Gerencia puede recibir OC")
  ELSE
    LET oi == Find(pos, poId) IN
    IF oi = 0 THEN Fail("OC no encontrada")
    ELSE IF alreadyReceived(pos[oi]) THEN Fail("Esta OC ya fue recibida")
         ELSE receiveWrites(pos[oi])

(***************************************************************************)
(* adjustStock                                                             *)
(***************************************************************************)
\* note: params.note || `Ajuste de stock ${delta > 0 ? '+' : ''}${delta} (DEMO)`
\* (the default text carries the sign of delta, the qty field its magnitude)
adjustNote(note, delta) ==
  IF note # "" THEN note
  ELSE IF delta > 0 THEN "Ajuste de stock +" ELSE "Ajuste de stock -"

\* mutant: the ADJUST movement carries the signed delta
adjustStock_signedQty(partId, delta10, note) ==
  IF ~canAdjustStock(role) THEN Fail("Solo Gerencia puede ajustar stock")
  ELSE
    LET pi == FindPart(parts, partId) IN
    IF pi = 0 THEN Fail("Refaccion no encontrada")
    ELSE
      LET delta == TruncTenths(delta10) IN
      IF delta = 0 THEN Fail("Delta invalido")
      ELSE
        LET parts1 == adjustStockOnHand(parts, partId, delta)
            movs1 == addMovement(movements,
                       Mov(partId, "ADJUST", delta, adjustNote(note, delta), 0, 0), now)
        IN  Result(tickets, parts1, pos, movs1, TRUE, "Stock ajustado")

adjustStock(partId, delta10, note) ==
  IF ~canAdjustStock(role) THEN Fail("Solo Gerencia puede ajustar stock")
  ELSE
    LET pi == FindPart(parts, partId) IN
    IF pi = 0 THEN Fail("Refaccion no encontrada")
    ELSE
      LET delta == TruncTenths(delta10) IN
      IF delta = 0 THEN Fail("Delta invalido")
      ELSE
        LET parts1 == adjustStockOnHand(parts, partId, delta)
            movs1 == addMovement(movements,
                       Mov(partId, "ADJUST", IF delta < 0 THEN -delta ELSE delta,
                           adjustNote(note, delta), 0, 0), now)
        IN  Result(tickets, parts1, pos, movs1, TRUE, "Stock ajustado")

(***************************************************************************)
(* Tickets: addTicket, buildTicket, resetDemoData, runScenario             *)
(***************************************************************************)
\* data: the fields a caller supplies.  id, createdAt, history and the score
\* are set by the store.
NewTicket(tks, data, st, user, action, at) ==
  LET t == [id |-> nextTicketId(tks), status |-> st,
            urgency |-> data.urgency, impact |-> data.impact, isOccupied |-> data.isOccupied,
            createdAt |-> at, needsPart |-> data.needsPart, partId |-> data.partId,
            partName |-> data.partName, partQty |-> data.partQty,
            needsVendor |-> data.needsVendor, poId |-> 0,
            history |-> << createAudit(user, action, at) >>, priorityScore |-> 0]
  IN  [t EXCEPT !.priorityScore = calculatePriority(t, at)]

addTicket(data) ==
  Result(<< NewTicket(tickets, data, "OPEN", role, "Ticket Creado", now) >> \o tickets,
         parts, pos, movements, TRUE, "")

buildTicket(tks, data, auditUser, auditAction, at) ==
  NewTicket(tks, data, data.status, auditUser, auditAction, at)

\* INITIAL_TICKETS.map(t => ({...t, priorityScore: calculatePriority(t)}))
seedTickets(at) ==
  [i \in DOMAIN INITIAL_TICKETS |->
     [INITIAL_TICKETS[i] EXCEPT !.priorityScore = calculatePriority(INITIAL_TICKETS[i], at)]]

resetDemoData == Result(seedTickets(now), INITIAL_PARTS, INITIAL_POS, <<>>, TRUE, "")

\* [...tickets].filter(not VERIFIED).sort(by priorityScore, descending, stable)
\*   .find(status is OPEN or IN_PROGRESS): index in tickets, 0 if none
blockEligible(t) == t.status = "OPEN" \/ t.status = "IN_PROGRESS"

pickForBlock(tks) ==
  LET cand == {i \in DOMAIN tks : blockEligible(tks[i])}
  IN  IF cand = {} THEN 0
      ELSE CHOOSE i \in cand :
             \A j \in cand : \/ tks[j].priorityScore < tks[i].priorityScore
                             \/ (tks[j].priorityScore = tks[i].priorityScore /\ j >= i)

\* parts.find(p => (p.stockOnHand - p.stockReserved) <= 0) || parts[0]: index, 0 if no part
RECURSIVE FirstLowFrom(_, _)
FirstLowFrom(ps, i) ==
  IF i > Len(ps) THEN 0
  ELSE IF ps[i].stockOnHand - ps[i].stockReserved <= 0 THEN i ELSE FirstLowFrom(ps, i + 1)

lowStockPart(ps) ==
  LET i == FirstLowFrom(ps, 1)
  IN  IF i # 0 THEN i ELSE IF Len(ps) > 0 THEN 1 ELSE 0

ScenarioData(u, i, occ, st, np, pid, qty, nv) ==
  [urgency |-> u, impact |-> i, isOccupied |-> occ, status |-> st, needsPart |-> np,
   partId |-> pid, partName |-> PartName(pid), partQty |-> qty, needsVendor |-> nv]

Prepend(t) == Result(<<t>> \o tickets, parts, pos, movements, TRUE, "")

runScenario(scenario) ==
  LET pick == pickForBlock(tickets) IN
  IF scenario = "GUEST_COMPLAINT" THEN
    Prepend(buildTicket(tickets,
              ScenarioData("HIGH", "BLOCKING", TRUE, "OPEN", FALSE, "", 0, FALSE),
              RECEPTION, "Ticket creado por Recepcion", now))
  ELSE IF scenario = "CLEANING_REPORT" THEN
    Prepend(buildTicket(tickets,
              ScenarioData("MEDIUM", "ANNOYING", FALSE, "OPEN", FALSE, "", 0, FALSE),
              CLEANING, "Ticket creado por Limpieza", now))
  ELSE IF scenario = "BLOCK_PART" THEN
    LET li == lowStockPart(parts) IN
    IF pick # 0 /\ li # 0 THEN
      Result(updateTicketAs(tickets, MAINTENANCE, tickets[pick].id,
               [status |-> "WAITING_PART", needsPart |-> TRUE, partId |-> parts[li].id,
                partName |-> parts[li].name, partQty |-> 1],
               "Marcado espera refaccion", now),
             parts, pos, movements, TRUE, "")
    ELSE
      Prepend(buildTicket(tickets,
                ScenarioData("HIGH", "BLOCKING", TRUE, "WAITING_PART", TRUE,
                             IF Len(parts) > 0 THEN parts[1].id ELSE "", 1, FALSE),
                MAINTENANCE, "Ticket creado y marcado espera refaccion", now))
  ELSE IF scenario = "BLOCK_VENDOR" THEN
    IF pick # 0 THEN
      Result(updateTicketAs(tickets, MAINTENANCE, tickets[pick].id,
               [status |-> "VENDOR", needsVendor |-> TRUE],
               "Marcado para proveedor", now),
             parts, pos, movements, TRUE, "")
    ELSE
      Prepend(buildTicket(tickets,
                ScenarioData("LOW", "ANNOYING", FALSE, "VENDOR", FALSE, "", 0, TRUE),
                MAINTENANCE, "Ticket creado y escalado a proveedor", now))
  ELSE Fail("")

(***************************************************************************)
(* Arguments the commands are called with                                  *)
(***************************************************************************)
TicketIds == {tickets[i].id : i \in DOMAIN tickets}
TicketArgs == TicketIds \cup {9999}
\* reserve: P-003 (stock 1) by one, P-005 (stock 3) by one or by floor(2.5) = 2
PartQtyArgs == {<<"P-003", 0>>, <<"P-005", 0>>, <<"P-005", 25>>}
\* every ticket with every part and quantity, an unknown ticket, an unknown part
ReserveArgs ==
  {<<tid, a[1], a[2]>> : tid \in TicketIds, a \in PartQtyArgs}
    \cup {<<9999, "P-003", 0>>, <<tickets[1].id, "P-999", 0>>}
\* createPOForPart: without a ticket, with a ticket, for an unknown part
CreatePOArgs == {<<"P-005", 15, 0>>, <<"P-005", 15, 1001>>, <<"P-999", 15, 0>>}
\* adjustStock: below zero, above zero, a fraction that truncates to 0, an unknown part
AdjustArgs == {<<"P-003", -20>>, <<"P-005", -20>>, <<"P-003", 15>>, <<"P-003", -5>>, <<"P-999", 15>>}
\* the commands are called without a note (note || default takes the default)
NoteArgs == {""}
POArgs == {pos[i].id : i \in DOMAIN pos} \cup {99}
\* the roles the role switch is used with
RoleArgs == {MANAGEMENT, MAINTENANCE, RECEPTION}
Scenarios == {"GUEST_COMPLAINT", "CLEANING_REPORT", "BLOCK_PART", "BLOCK_VENDOR"}

\* what the views hand to addTicket (ReceptionView.handleCreate)
TicketData ==
  { [urgency |-> "MEDIUM", impact |-> "ANNOYING", isOccupied |-> TRUE, needsPart |-> FALSE,
     partId |-> "", partName |-> "", partQty |-> 0, needsVendor |-> FALSE] }

\* the patches the views hand to updateTicket: setStatus, confirmPart,
\* confirmVendor, handleEscalateCritical, handleAssign / handleAddNote (no
\* modelled field), a patch that carries a priorityScore and one that carries
\* a history (updates is a Partial<Ticket>)
Patches ==
  << [patch |-> [status |-> "OPEN"], action |-> "Estado cambiado"],
     [patch |-> [status |-> "IN_PROGRESS"], action |-> "Estado cambiado"],
     [patch |-> [status |-> "RESOLVED"], action |-> "Marcado como Resuelto"],
     [patch |-> [status |-> "VERIFIED"], action |-> "Verificado y Cerrado"],
     [patch |-> [status |-> "WAITING_PART", needsPart |-> TRUE, partName |-> "Refaccion (DEMO)"],
      action |-> "Marcado espera refaccion"],
     [patch |-> [status |-> "VENDOR", needsVendor |-> TRUE], action |-> "Marcado para proveedor"],
     [patch |-> [urgency |-> "HIGH", impact |-> "BLOCKING", isOccupied |-> TRUE],
      action |-> "Escalada por Recepcion"],
     [patch |-> <<>>, action |-> "Nota agregada"],
     [patch |-> [priorityScore |-> 999], action |-> "Prioridad manual"],
     [patch |-> [history |-> <<>>], action |-> "Historial reemplazado"] >>

\* the patches the store is explored with next to the inventory commands:
\* a part marked as needed, a ticket closed, a score handed in
InventoryPatches == {p \in DOMAIN Patches : Patches[p].action \in
                       {"Marcado espera refaccion", "Verificado y Cerrado",
                        "Prioridad manual"}}

(***************************************************************************)
(* State machine                                                           *)
(***************************************************************************)
NoPre == [reserved |-> 0, partId |-> "", partQty |-> 0]

\* prev: the command run before this one
Observed(op, ok, msg, tid, pid, qty, poid, pre) ==
  [op |-> op, ok |-> ok, message |-> msg, ticketId |-> tid, partId |-> pid,
   qty |-> qty, poId |-> poid, pre |-> pre,
   prev |-> [op |-> last.op, ok |-> last.ok, ticketId |-> last.ticketId]]

Step ==
  /\ steps < MaxSteps
  /\ steps' = steps + 1

\* the handler's writes become the next state; the return value is observed
Commit(r, op, tid, pid, qty, poid, pre) ==
  /\ Step
  /\ tickets' = r.tickets
  /\ parts' = r.parts
  /\ pos' = r.pos
  /\ movements' = r.movements
  /\ last' = Observed(op, r.ret.ok, r.ret.message, tid, pid, qty, poid, pre)
  /\ UNCHANGED <<role, now>>

Init ==
  /\ role = MANAGEMENT
  /\ tickets = seedTickets(0)
  /\ parts = INITIAL_PARTS
  /\ pos = INITIAL_POS
  /\ movements = <<>>
  /\ now = 0
  /\ last = [op |-> "init", ok |-> TRUE, message |-> "", ticketId |-> 0, partId |-> "",
             qty |-> 0, poId |-> 0, pre |-> NoPre,
             prev |-> [op |-> "none", ok |-> TRUE, ticketId |-> 0]]
  /\ steps = 0

SetRole ==
  \E r \in RoleArgs :
    /\ r # role
    /\ Step
    /\ role' = r
    /\ last' = Observed("setRole", TRUE, "", 0, "", 0, 0, NoPre)
    /\ UNCHANGED <<tickets, parts, pos, movements, now>>

Tick ==
  /\ Step
  /\ now' = now + 1
  /\ last' = Observed("tick", TRUE, "", 0, "", 0, 0, NoPre)
  /\ UNCHANGED <<role, tickets, parts, pos, movements>>

AddTicket ==
  \E data \in TicketData :
    Commit(addTicket(data), "addTicket", nextTicketId(tickets), "", 0, 0, NoPre)

\* updateTicket returns nothing, whether or not the id matched a ticket: the
\* call is observed as ok with an empty message either way
UpdateTicket ==
  \E id \in TicketArgs, k \in InventoryPatches :
    Commit(Result(updateTicket(tickets, id, Patches[k].patch, Patches[k].action, now),
                  parts, pos, movements, TRUE, ""),
           "updateTicket", id, "", 0, 0, NoPre)

\* what the ticket and the part looked like when reserve was called
ReservePre(tid, pid) ==
  LET ti == Find(tickets, tid)
      pi == FindPart(parts, pid)
  IN  IF ti = 0 \/ pi = 0 THEN NoPre
      ELSE [reserved |-> parts[pi].stockReserved, partId |-> tickets[ti].partId,
            partQty |-> tickets[ti].partQty]

Reserve ==
  \E a \in ReserveArgs :
    LET r == reservePartForTicket(a[1], a[2], a[3])
    IN  Commit(r, "reserve", a[1], a[2], normQty(a[3]), 0,
               IF r.ret.ok THEN ReservePre(a[1], a[2]) ELSE NoPre)

Release ==
  \E tid \in TicketArgs, note \in NoteArgs :
    Commit(releaseReservationForTicket(tid, note), "release", tid, "", 0, 0, NoPre)

Issue ==
  \E tid \in TicketArgs, note \in NoteArgs :
    Commit(issueReservedPartForTicket(tid, note), "issue", tid, "", 0, 0, NoPre)

CreatePO ==
  \E a \in CreatePOArgs :
    Commit(createPOForPart(a[1], a[2], a[3]), "createPO", a[3], a[1], normQty(a[2]),
           nextPOId(pos), NoPre)

ReceivePO ==
  \E poId \in POArgs :
    Commit(receivePO(poId), "receivePO", 0, "", 0, poId, NoPre)

AdjustStock ==
  \E a \in AdjustArgs, note \in NoteArgs :
    Commit(adjustStock(a[1], a[2], note), "adjustStock", 0, a[1], TruncTenths(a[2]), 0, NoPre)

ResetDemoData ==
  /\ Step
  /\ role' = MANAGEMENT
  /\ tickets' = resetDemoData.tickets
  /\ parts' = resetDemoData.parts
  /\ pos' = resetDemoData.pos
  /\ movements' = resetDemoData.movements
  /\ last' = Observed("reset", TRUE, "", 0, "", 0, 0, NoPre)
  /\ UNCHANGED now

RunScenario ==
  \E sc \in Scenarios :
    Commit(runScenario(sc), "runScenario", 0, "", 0, 0, NoPre)

Next ==
  \/ SetRole
  \/ Tick
  \/ AddTicket
  \/ UpdateTicket
  \/ Reserve
  \/ Release
  \/ Issue
  \/ CreatePO
  \/ ReceivePO
  \/ AdjustStock
  \/ ResetDemoData
  \/ RunScenario

Spec == Init /\ [][Next]_vars

(***************************************************************************)
(* The ticket functions on any stored ticket                               *)
(***************************************************************************)
\* ages up to MaxAge ticks: the age term stops growing at 6 days
MaxAge == 65

\* a ticket as hydration hands it to the store: any status, urgency, impact,
\* occupancy and age, with the score recomputed on load
DrawnTickets ==
  { [t EXCEPT !.priorityScore = calculatePriority(t, 0)] :
      t \in { SeedTicket(1001, st, u, i, occ, -age) :
                st \in TicketStatus, u \in Urgency, i \in Impact,
                occ \in BOOLEAN, age \in 0..MaxAge } }

TicketInit ==
  /\ role = RECEPTION
  /\ tickets \in { <<t>> : t \in DrawnTickets }
  /\ parts = INITIAL_PARTS
  /\ pos = INITIAL_POS
  /\ movements = <<>>
  /\ now = 0
  /\ last = [op |-> "init", ok |-> TRUE, message |-> "", ticketId |-> 0, partId |-> "",
             qty |-> 0, poId |-> 0, pre |-> NoPre,
             prev |-> [op |-> "none", ok |-> TRUE, ticketId |-> 0]]
  /\ steps = 0

\* calculatePriority(ticket) called now; last.qty is what it returned
Evaluate ==
  /\ steps = 0
  /\ steps' = 1
  /\ last' = Observed("calculatePriority", TRUE, "", tickets[1].id, "",
                      calculatePriority(tickets[1], now), 0, NoPre)
  /\ UNCHANGED <<role, tickets, parts, pos, movements, now>>

\* ReceptionView.handleEscalateCritical; last.qty is the score before
EscalateCritical ==
  \E k \in DOMAIN Patches :
    /\ Patches[k].action = "Escalada por Recepcion"
    /\ steps = 0
    /\ steps' = 1
    /\ tickets' = updateTicket(tickets, tickets[1].id, Patches[k].patch, Patches[k].action, now)
    /\ last' = Observed("escalate", TRUE, "", tickets[1].id, "", tickets[1].priorityScore, 0, NoPre)
    /\ UNCHANGED <<role, parts, pos, movements, now>>

\* updateTicket with any patch
PatchTicket ==
  \E k \in DOMAIN Patches :
    /\ steps = 0
    /\ steps' = 1
    /\ tickets' = updateTicket(tickets, tickets[1].id, Patches[k].patch, Patches[k].action, now)
    /\ last' = Observed("updateTicket", TRUE, "", tickets[1].id, "", 0, 0, NoPre)
    /\ UNCHANGED <<role, parts, pos, movements, now>>

TicketNext ==
  \/ Evaluate
  \/ EscalateCritical
  \/ PatchTicket

TicketSpec == TicketInit /\ [][TicketNext]_vars

(***************************************************************************)
(* receivePO on any stored order                                           *)
(***************************************************************************)
\* an order has up to MaxItems line items of up to MaxItemQty units each
MaxItems == 2
MaxItemQty == 2

\* PurchaseOrderItem: the fields receivePO reads
OrderItems ==
  {[partId |-> p, qty |-> q] : p \in {"P-003", "P-005"}, q \in 1..MaxItemQty}

\* an order as hydration hands it to the store: any status, any line items
DrawnOrders ==
  { [id |-> 1, status |-> st, createdBy |-> MANAGEMENT, items |-> its] :
      st \in POStatus,
      its \in UNION {[1..n -> OrderItems] : n \in 1..MaxItems} }

ReceiveInit ==
  /\ role = MANAGEMENT
  /\ tickets = seedTickets(0)
  /\ parts = INITIAL_PARTS
  /\ pos \in { <<o>> : o \in DrawnOrders }
  /\ movements = <<>>
  /\ now = 0
  /\ last = [op |-> "init", ok |-> TRUE, message |-> "", ticketId |-> 0, partId |-> "",
             qty |-> 0, poId |-> 0, pre |-> NoPre,
             prev |-> [op |-> "none", ok |-> TRUE, ticketId |-> 0]]
  /\ steps = 0

ReceiveNext ==
  \/ SetRole
  \/ ReceivePO

ReceiveSpec == ReceiveInit /\ [][ReceiveNext]_vars

(***************************************************************************)
(* Two reserve calls made from one render                                  *)
(***************************************************************************)
\* two tickets, one part, one quantity
ReservePairArgs ==
  {<<t1, t2, a[1], a[2]>> : t1 \in TicketIds, t2 \in TicketIds, a \in PartQtyArgs}

\* reservePartForTicket called for two different tickets before React has
\* rendered again: both calls are the same closure over tickets and parts,
\* and the updaters of the second are applied after those of the first.
\* The pair is observed as ok when both calls returned ok.
ReservePair ==
  \E a \in ReservePairArgs :
    /\ a[1] # a[2]
    /\ LET r1 == reserveCall(tickets, parts, tickets, parts, movements, a[1], a[3], a[4])
           r2 == reserveCall(tickets, parts, r1.tickets, r1.parts, r1.movements, a[2], a[3], a[4])
       IN  Commit([r2 EXCEPT !.ret = [ok |-> r1.ret.ok /\ r2.ret.ok, message |-> r2.ret.message]],
                  "reservePair", a[1], a[3], normQty(a[4]), 0, ReservePre(a[1], a[3]))

SnapshotNext ==
  \/ SetRole
  \/ Reserve
  \/ Release
  \/ ReservePair

SnapshotSpec == Init /\ [][SnapshotNext]_vars

(***************************************************************************)
(* Properties                                                              *)
(***************************************************************************)
InventoryOps == {"reserve", "release", "issue", "createPO", "receivePO", "adjustStock"}

\* the ticket (index in tickets) and the part (index in parts) a call names
CalledTicket(obs) == Find(tickets, obs.ticketId)
CalledPart(obs) == FindPart(parts, obs.partId)

\* a ticket holds an active reservation: needsPart with a part and a quantity
holdsReservation(t) == t.needsPart /\ t.partId # "" /\ t.partQty > 0

\* C1: every part has stockOnHand >= 0 and stockReserved >= 0 in every
\* reachable state.
C1_StockNonNegative ==
  \A i \in DOMAIN parts : parts[i].stockOnHand >= 0 /\ parts[i].stockReserved >= 0

\* a negative adjustment larger than the stock has been applied
C1_Witness ==
  /\ last.op = "adjustStock" /\ last.ok /\ last.qty = -2
  /\ CalledPart(last) # 0
  /\ parts[CalledPart(last)].stockOnHand = 0

\* C2: a reserve, release, issue, createPO, receivePO or adjustStock that
\* returns ok = false leaves tickets, parts, movements and purchase orders
\* exactly as they were.
C2_FailureWritesNothing ==
  [][ (last'.op \in InventoryOps /\ ~last'.ok) =>
        (tickets' = tickets /\ parts' = parts /\ movements' = movements /\ pos' = pos) ]_vars

\* a command has failed on a store that earlier commands had written to
C2_Witness ==
  /\ last.op = "receivePO" /\ ~last.ok /\ last.message = "Esta OC ya fue recibida"
  /\ movements # <<>>

\* C3: reserve succeeds only if max(0, stockOnHand - stockReserved) of the
\* part is at least the normalized quantity; a permitted reserve on an
\* existing ticket and part with less available stock fails with the
\* insufficient-stock message (in particular qty 1 against available 0).
C3_ReserveNeedsAvailable ==
  [][ last'.op = "reserve" =>
        LET ti == CalledTicket(last')
            pi == CalledPart(last')
        IN  /\ last'.ok => (pi # 0 /\ getAvailableStock(parts[pi]) >= last'.qty)
            /\ (canReserve(role) /\ ti # 0 /\ pi # 0 /\ getAvailableStock(parts[pi]) < last'.qty)
                 => (~last'.ok /\ last'.message = "Stock insuficiente") ]_vars

\* another ticket's reservation has taken the last unit and a reserve of 1 was refused
C3_Witness ==
  /\ last.op = "reserve" /\ ~last.ok /\ last.message = "Stock insuficiente" /\ last.qty = 1
  /\ CalledPart(last) # 0
  /\ getAvailableStock(parts[CalledPart(last)]) = 0
  /\ \E i \in DOMAIN tickets :
       /\ tickets[i].id # last.ticketId
       /\ holdsReservation(tickets[i])
       /\ tickets[i].partId = last.partId

\* C4: an order is credited at most once.  receivePO on an order that is
\* RECEIVED fails and changes no part; on an order that is not, called by
\* Gerencia, it succeeds and makes it RECEIVED; and an order stops being
\* RECEIVED only when resetDemoData puts the seed stock back and empties the
\* ledger.
C4_ReceiveOnce ==
  [][ \A i \in DOMAIN pos :
        /\ (last'.op = "receivePO" /\ last'.poId = pos[i].id) =>
             IF pos[i].status = "RECEIVED"
             THEN ~last'.ok /\ parts' = parts
             ELSE canCreatePO(role) =>
                    (last'.ok /\ pos'[Find(pos', pos[i].id)].status = "RECEIVED")
        /\ pos[i].status = "RECEIVED" =>
             \/ (Find(pos', pos[i].id) # 0 /\ pos'[Find(pos', pos[i].id)].status = "RECEIVED")
             \/ (last'.op = "reset" /\ parts' = INITIAL_PARTS /\ movements' = <<>>) ]_vars

\* the same order has been received and then received again, in vain
C4_Witness ==
  /\ last.op = "receivePO" /\ ~last.ok /\ last.message = "Esta OC ya fue recibida"
  /\ last.prev.op = "receivePO" /\ last.prev.ok
  /\ \E k \in DOMAIN movements : movements[k].type = "PO_RECEIVED" /\ movements[k].poId = last.poId

\* C5: a successful reserve of newQty on part Y for a ticket that holds a
\* reservation of oldQty on part X lowers X's stockReserved by oldQty and
\* raises Y's by newQty (newQty - oldQty in all when X = Y).
C5_SupersedeNet ==
  [][ (last'.op = "reserve" /\ last'.ok /\ CalledTicket(last') # 0) =>
        LET t == tickets[CalledTicket(last')]
        IN  holdsReservation(t) =>
              \A i \in DOMAIN parts :
                parts'[i].stockReserved =
                  parts[i].stockReserved
                  - (IF parts[i].id = t.partId THEN t.partQty ELSE 0)
                  + (IF parts[i].id = last'.partId THEN last'.qty ELSE 0) ]_vars

\* C6 (as claimed): a successful release right after a successful reserve on
\* the same ticket returns the part's stockReserved to its value before the
\* reserve.
C6_ReserveReleaseRestores ==
  [][ (last.op = "reserve" /\ last.ok /\ last'.op = "release" /\ last'.ok
       /\ last'.ticketId = last.ticketId /\ CalledPart(last) # 0) =>
        parts'[CalledPart(last)].stockReserved = last.pre.reserved ]_vars

\* C6 (amended): the value before the reserve is restored unless the ticket
\* was already linked to that same part when reserve was called; then the
\* reserve has released the old quantity first, and the release ends at the
\* value before the reserve less the old partQty, clamped at 0.
C6_ReserveReleaseAmended ==
  [][ (last.op = "reserve" /\ last.ok /\ last'.op = "release" /\ last'.ok
       /\ last'.ticketId = last.ticketId /\ CalledPart(last) # 0) =>
        parts'[CalledPart(last)].stockReserved =
          IF last.pre.partId = last.partId /\ last.pre.partQty > 0
          THEN Max2(0, last.pre.reserved - last.pre.partQty)
          ELSE last.pre.reserved ]_vars

\* a reserve on a ticket without a link to the part, then the release
C6_Witness ==
  /\ last.op = "release" /\ last.ok
  /\ last.prev.op = "reserve" /\ last.prev.ok /\ last.prev.ticketId = last.ticketId
  /\ Len(movements) >= 2
  /\ movements[1].type = "RELEASE" /\ movements[2].type = "RESERVE"
  /\ movements[1].qty = 2 /\ movements[2].qty = 2
  /\ movements[1].partId = movements[2].partId

\* C7: an issue right after a successful reserve of q on the same ticket
\* succeeds, lowers stockOnHand and stockReserved of the reserved part by
\* exactly q and leaves every other part as it was.
C7_ReserveIssue ==
  [][ (last.op = "reserve" /\ last.ok /\ last'.op = "issue"
       /\ last'.ticketId = last.ticketId) =>
        /\ last'.ok
        /\ \A i \in DOMAIN parts :
             IF parts[i].id = last.partId
             THEN /\ parts'[i].stockOnHand = parts[i].stockOnHand - last.qty
                  /\ parts'[i].stockReserved = parts[i].stockReserved - last.qty
             ELSE parts'[i] = parts[i] ]_vars

\* a reserve of 2, then the issue
C7_Witness ==
  /\ last.op = "issue" /\ last.ok
  /\ last.prev.op = "reserve" /\ last.prev.ok /\ last.prev.ticketId = last.ticketId
  /\ movements # <<>> /\ movements[1].type = "ISSUE" /\ movements[1].qty = 2

\* C8: an issue repeated on a ticket whose reservation has just been issued
\* or released lowers no part's stockOnHand.
C8_IssueOnce ==
  [][ (last.op \in {"issue", "release"} /\ last.ok /\ last'.op = "issue"
       /\ last'.ticketId = last.ticketId) =>
        \A i \in DOMAIN parts : parts'[i].stockOnHand = parts[i].stockOnHand ]_vars

\* C9: release on a ticket that holds no active reservation (never reserved
\* for, or already released or issued) fails, changes no stock and appends
\* no movement.
C9_ReleaseNeedsReservation ==
  [][ (last'.op = "release" /\ canReserve(role)
       /\ (CalledTicket(last') = 0 \/ ~holdsReservation(tickets[CalledTicket(last')]))) =>
        (~last'.ok /\ parts' = parts /\ movements' = movements) ]_vars

\* the signed effect of a movement on <<stockOnHand, stockReserved>>
RECURSIVE Replay(_, _, _, _)
\* movements[k] is the k-th newest: the replay runs from Len(movs) down to 1
Replay(movs, pid, k, qtys) ==
  IF k = 0 THEN qtys
  ELSE LET m == movs[k]
           d == IF m.partId # pid THEN <<0, 0>>
                ELSE IF m.type = "RESERVE" THEN <<0, m.qty>>
                ELSE IF m.type = "RELEASE" THEN <<0, -m.qty>>
                ELSE IF m.type = "ISSUE" THEN <<-m.qty, -m.qty>>
                ELSE IF m.type = "RECEIVE" THEN <<m.qty, 0>>
                ELSE IF m.type = "ADJUST"
                     THEN <<IF m.note = "Ajuste de stock -" THEN -m.qty ELSE m.qty, 0>>
                ELSE <<0, 0>>
       IN  Replay(movs, pid, k - 1, <<qtys[1] + d[1], qtys[2] + d[2]>>)

\* C10: replaying a part's movements, oldest first, on its seed quantities
\* gives its current stockOnHand and stockReserved.
C10_LedgerReplays ==
  \A i \in DOMAIN parts :
    Replay(movements, parts[i].id, Len(movements),
           <<INITIAL_PARTS[i].stockOnHand, INITIAL_PARTS[i].stockReserved>>)
      = <<parts[i].stockOnHand, parts[i].stockReserved>>

\* the last audit event of a ticket
lastEvent(t) == t.history[Len(t.history)]

\* C11: once a ticket is VERIFIED no command changes its status again
\* (resetDemoData, which replaces the whole store, aside).
C11_VerifiedTerminal ==
  [][ last'.op # "reset" =>
        \A i \in DOMAIN tickets :
          tickets[i].status = "VERIFIED" =>
            LET j == Find(tickets', tickets[i].id)
            IN  j # 0 /\ tickets'[j].status = "VERIFIED" ]_vars

\* C12: after every command, each ticket it created or changed stores the
\* priorityScore that calculatePriority gives for it at that instant; a
\* priorityScore handed in with a patch does not survive.
C12_ScoreDerived ==
  [][ \A j \in DOMAIN tickets' :
        LET i == Find(tickets, tickets'[j].id)
        IN  (i = 0 \/ tickets[i] # tickets'[j]) =>
              tickets'[j].priorityScore = calculatePriority(tickets'[j], now') ]_vars

\* a patch with priorityScore 999 has been applied, some time after the seed
C12_Witness ==
  /\ last.op = "updateTicket" /\ now > 0
  /\ \E i \in DOMAIN tickets :
       /\ tickets[i].id = last.ticketId
       /\ lastEvent(tickets[i]).action = "Prioridad manual"
       /\ tickets[i].priorityScore < 999

\* C13: calculatePriority depends only on urgency, impact, isOccupied,
\* status, createdAt and the instant; it is 0 for RESOLVED and VERIFIED, and
\* otherwise the sum of urgency (50/30/10), impact (40/20/0), occupancy (30)
\* and min(5 x daysOpen, 30), rounded, which lies between 10 and 150.
\* Everything is compared times 2 * TicksPerDay: s is x rounded iff
\* x - 1/2 < s <= x + 1/2.
C13_PriorityFormula ==
  last.op = "calculatePriority" =>
    LET t == tickets[1]
        s == last.qty
        pts == (IF t.urgency = "HIGH" THEN 50 ELSE IF t.urgency = "MEDIUM" THEN 30 ELSE 10)
               + (IF t.impact = "BLOCKING" THEN 40 ELSE IF t.impact = "ANNOYING" THEN 20 ELSE 0)
               + (IF t.isOccupied THEN 30 ELSE 0)
        age == Min2(10 * (now - t.createdAt), 60 * TicksPerDay)
        exact == 2 * TicksPerDay * pts + age
    IN  /\ s = calculatePriority([status |-> t.status, urgency |-> t.urgency, impact |-> t.impact,
                                  isOccupied |-> t.isOccupied, createdAt |-> t.createdAt], now)
        /\ IF t.status \in {"RESOLVED", "VERIFIED"} THEN s = 0
           ELSE /\ 2 * TicksPerDay * s <= exact + TicksPerDay
                /\ 2 * TicksPerDay * s > exact - TicksPerDay
                /\ 10 <= s /\ s <= 150

\* a score of 10.5 has been rounded up to 11
C13_Witness ==
  /\ last.op = "calculatePriority" /\ last.qty = 11
  /\ now - tickets[1].createdAt = 1

\* C14 (as claimed): escalating a LOW / NONE / unoccupied ticket to HIGH /
\* BLOCKING / occupied at the same instant strictly raises its priorityScore.
C14_EscalationRaises ==
  [][ (last'.op = "escalate" /\ tickets[1].urgency = "LOW" /\ tickets[1].impact = "NONE"
       /\ ~tickets[1].isOccupied) =>
        tickets'[1].priorityScore > tickets[1].priorityScore ]_vars

\* C14 (amended): it does so for a ticket that is neither RESOLVED nor
\* VERIFIED; the score of a RESOLVED or VERIFIED ticket is 0 before and after.
C14_EscalationAmended ==
  [][ (last'.op = "escalate" /\ tickets[1].urgency = "LOW" /\ tickets[1].impact = "NONE"
       /\ ~tickets[1].isOccupied) =>
        IF tickets[1].status \in {"RESOLVED", "VERIFIED"}
        THEN tickets[1].priorityScore = 0 /\ tickets'[1].priorityScore = 0
        ELSE tickets'[1].priorityScore > tickets[1].priorityScore ]_vars

\* a fresh LOW / NONE / unoccupied ticket (score 10) has been escalated (120)
C14_Witness ==
  /\ last.op = "escalate" /\ last.qty = 10
  /\ tickets[1].status = "OPEN" /\ tickets[1].priorityScore = 120

\* C15: under a role other than Mantenimiento or Gerencia, reserve, release
\* and issue return ok = false and leave tickets, parts, movements and orders
\* as they were; under a role other than Gerencia so do createPOForPart,
\* receivePO and adjustStock.
C15_CapabilityGating ==
  [][ LET refused == /\ ~last'.ok
                     /\ tickets' = tickets /\ parts' = parts
                     /\ movements' = movements /\ pos' = pos
      IN  /\ (last'.op \in {"reserve", "release", "issue"}
              /\ role \notin {MAINTENANCE, MANAGEMENT}) => refused
          /\ (last'.op \in {"createPO", "receivePO", "adjustStock"}
              /\ role # MANAGEMENT) => refused ]_vars

\* Mantenimiento has reserved a part and has been refused a purchase order
C15_Witness ==
  /\ role = MAINTENANCE
  /\ last.op = "createPO" /\ ~last.ok /\ last.partId = "P-005"
  /\ movements # <<>> /\ movements[1].type = "RESERVE" /\ movements[1].user = MAINTENANCE

\* C16: an order that is RECEIVED or CANCELED keeps its status under every
\* command (resetDemoData, which replaces the whole store, aside), and a
\* receivePO on it changes no stock.
C16_ClosedOrderImmutable ==
  [][ last'.op # "reset" =>
        \A i \in DOMAIN pos :
          pos[i].status \in {"RECEIVED", "CANCELED"} =>
            LET j == Find(pos', pos[i].id)
            IN  /\ j # 0 /\ pos'[j].status = pos[i].status
                /\ (last'.op = "receivePO" /\ last'.poId = pos[i].id) => parts' = parts ]_vars

\* C17: a successful createPOForPart adds one order, ORDERED, with one line
\* item (the part, the normalized quantity, at least 1), appends one
\* PO_CREATED movement, changes no part and, if a ticketId is given, sets that
\* ticket's poId and leaves its status; no other ticket changes.  A receivePO
\* of that order right after adds the line quantity to the part's stockOnHand
\* and sets the order RECEIVED.
C17_CreatePO ==
  [][ /\ (last'.op = "createPO" /\ last'.ok) =>
           /\ Len(pos') = Len(pos) + 1 /\ Tail(pos') = pos
           /\ pos'[1].id = last'.poId /\ Find(pos, last'.poId) = 0
           /\ pos'[1].status = "ORDERED"
           /\ Len(pos'[1].items) = 1
           /\ pos'[1].items[1].partId = last'.partId
           /\ pos'[1].items[1].qty = last'.qty /\ last'.qty >= 1
           /\ Len(movements') = Len(movements) + 1 /\ Tail(movements') = movements
           /\ movements'[1].type = "PO_CREATED" /\ movements'[1].poId = last'.poId
           /\ parts' = parts
           /\ Len(tickets') = Len(tickets)
           /\ \A i \in DOMAIN tickets :
                IF last'.ticketId # 0 /\ tickets[i].id = last'.ticketId
                THEN /\ tickets'[i].poId = last'.poId
                     /\ tickets'[i].status = tickets[i].status
                ELSE tickets'[i] = tickets[i]
      /\ (last.op = "createPO" /\ last.ok /\ last'.op = "receivePO" /\ last'.poId = last.poId) =>
           /\ last'.ok
           /\ pos'[Find(pos', last.poId)].status = "RECEIVED"
           /\ \A i \in DOMAIN parts :
                /\ parts'[i].stockOnHand =
                     parts[i].stockOnHand + (IF parts[i].id = last.partId THEN last.qty ELSE 0)
                /\ parts'[i].stockReserved = parts[i].stockReserved ]_vars

\* an order created for ticket T-1001 has been received
C17_Witness ==
  /\ last.op = "receivePO" /\ last.ok
  /\ last.prev.op = "createPO" /\ last.prev.ok /\ last.prev.ticketId = 1001
  /\ Find(pos, last.poId) # 0
  /\ pos[Find(pos, last.poId)].status = "RECEIVED"
  /\ \E i \in DOMAIN tickets : tickets[i].id = 1001 /\ tickets[i].poId = last.poId

\* C18: an updateTicket on an existing ticket appends exactly one audit event
\* to that ticket's history and keeps the earlier events, in order; no other
\* ticket's history changes.
C18_HistoryAppends ==
  [][ last'.op = "updateTicket" =>
        \A i \in DOMAIN tickets :
          IF tickets[i].id = last'.ticketId
          THEN /\ Len(tickets'[i].history) = Len(tickets[i].history) + 1
               /\ SubSeq(tickets'[i].history, 1, Len(tickets[i].history)) = tickets[i].history
          ELSE tickets'[i].history = tickets[i].history ]_vars

\* C19: the ledger only grows: every movement recorded stays in it, unchanged
\* and in its place from the oldest end, under every command.
C19_LedgerOnlyGrows ==
  [][ /\ Len(movements') >= Len(movements)
      /\ \A k \in DOMAIN movements :
           movements'[k + Len(movements') - Len(movements)] = movements[k] ]_vars

\* C20: updateTicket with an id that matches no ticket changes no ticket and
\* tells its caller that the lookup failed.
C20_UnknownTicketSignalled ==
  [][ (last'.op = "updateTicket" /\ Find(tickets, last'.ticketId) = 0) =>
        (tickets' = tickets /\ ~last'.ok) ]_vars

\* C21: a ticket that addTicket or runScenario puts into the store is OPEN
\* when it is created.
C21_CreatedOpen ==
  [][ last'.op \in {"addTicket", "runScenario"} =>
        \A j \in DOMAIN tickets' :
          Find(tickets, tickets'[j].id) = 0 => tickets'[j].status = "OPEN" ]_vars

\* C22: a ticket becomes VERIFIED only in a step before which it was RESOLVED.
C22_VerifiedFromResolved ==
  [][ \A i \in DOMAIN tickets :
        LET j == Find(tickets', tickets[i].id)
        IN  (j # 0 /\ tickets[i].status # "VERIFIED" /\ tickets'[j].status = "VERIFIED")
              => tickets[i].status = "RESOLVED" ]_vars

\* the sum of partQty over the tickets tks[1..k] that link the part pid with
\* needsPart true
RECURSIVE heldQty(_, _, _)
heldQty(tks, pid, k) ==
  IF k = 0 THEN 0
  ELSE heldQty(tks, pid, k - 1)
       + (IF tks[k].needsPart /\ tks[k].partId = pid THEN tks[k].partQty ELSE 0)

\* C23: in every reachable state each part's stockReserved equals the sum of
\* partQty over the tickets that hold an active reservation on it (needsPart
\* true with that partId).
C23_ReservationConservation ==
  \A i \in DOMAIN parts :
    parts[i].stockReserved = heldQty(tickets, parts[i].id, Len(tickets))

\* every part has stockReserved <= stockOnHand
reservedWithinOnHand(ps) ==
  \A i \in DOMAIN ps : ps[i].stockReserved <= ps[i].stockOnHand

\* C24: a step from a state where every part has stockReserved <= stockOnHand
\* to one where some part has not is an adjustStock with a negative delta;
\* reserve, release, issue, createPOForPart, receivePO and a positive
\* adjustStock keep stockReserved <= stockOnHand.
C24_ReservedWithinOnHand ==
  [][ (reservedWithinOnHand(parts) /\ ~reservedWithinOnHand(parts')) =>
        (last'.op = "adjustStock" /\ last'.ok /\ last'.qty < 0) ]_vars

\* a reserved part was issued and every part still has its reservations
\* covered
C24_Witness ==
  /\ last.op = "issue" /\ last.ok
  /\ last.prev.op = "reserve" /\ last.prev.ok /\ last.prev.ticketId = last.ticketId
  /\ reservedWithinOnHand(parts)

\* the movements a step has put on the ledger, newest first
newMovements == SubSeq(movements', 1, Len(movements') - Len(movements))

\* what a successful reserve does apart from the reserved quantity: the
\* ticket is linked to the part with quantity q and waits for it, one RESERVE
\* movement of q and one audit event are appended, no stockOnHand changes
reserveEffects ==
  LET ti == CalledTicket(last')
      pi == CalledPart(last')
      q == last'.qty
      t == tickets'[ti]
      reserves == {k \in DOMAIN newMovements : newMovements[k].type = "RESERVE"}
  IN  /\ ti # 0 /\ pi # 0 /\ q >= 1
      /\ t.id = last'.ticketId
      /\ t.needsPart /\ t.status = "WAITING_PART"
      /\ t.partId = last'.partId /\ t.partName = parts[pi].name /\ t.partQty = q
      /\ Cardinality(reserves) = 1
      /\ \A k \in reserves : /\ newMovements[k].qty = q
                             /\ newMovements[k].partId = last'.partId
                             /\ newMovements[k].ticketId = last'.ticketId
      /\ Len(t.history) = Len(tickets[ti].history) + 1
      /\ \A i \in DOMAIN parts : parts'[i].stockOnHand = parts[i].stockOnHand

\* C25 (as claimed): a successful reserve of q raises the part's stockReserved
\* by q, links the ticket (needsPart, WAITING_PART, partId, partName, partQty
\* = q), appends one RESERVE movement of q and one audit event and leaves
\* every stockOnHand as it was.
C25_ReserveEffects ==
  [][ (last'.op = "reserve" /\ last'.ok) =>
        /\ reserveEffects
        /\ parts'[CalledPart(last')].stockReserved =
             parts[CalledPart(last')].stockReserved + last'.qty ]_vars

\* C25 (amended): the same, with stockReserved raised by q from the value
\* left by the release of the ticket's earlier link: when the ticket was
\* linked to the same part with partQty > 0, from max(0, stockReserved - old
\* partQty).
C25_ReserveEffectsAmended ==
  [][ (last'.op = "reserve" /\ last'.ok) =>
        /\ reserveEffects
        /\ parts'[CalledPart(last')].stockReserved =
             (IF last'.pre.partId = last'.partId /\ last'.pre.partQty > 0
              THEN Max2(0, parts[CalledPart(last')].stockReserved - last'.pre.partQty)
              ELSE parts[CalledPart(last')].stockReserved) + last'.qty ]_vars

\* a reserve of 2 on a ticket that held 1 of the same part
C25_Witness ==
  /\ last.op = "reserve" /\ last.ok /\ last.qty = 2
  /\ last.pre.partId = last.partId /\ last.pre.partQty = 1 /\ last.pre.reserved = 1

\* C26: a successful reserve on a ticket that was linked to a part puts two
\* movements on the ledger, the RELEASE of the old part and quantity and then
\* the RESERVE of the new ones: the RELEASE has the smaller id, is the older
\* of the two, and both carry the ticket's id.
C26_ReleaseBeforeReserve ==
  [][ (last'.op = "reserve" /\ last'.ok
       /\ last'.pre.partId # "" /\ last'.pre.partQty > 0) =>
        /\ Len(newMovements) = 2
        /\ LET rel == newMovements[2]
               res == newMovements[1]
           IN  /\ rel.type = "RELEASE" /\ res.type = "RESERVE"
               /\ rel.partId = last'.pre.partId /\ rel.qty = last'.pre.partQty
               /\ res.partId = last'.partId /\ res.qty = last'.qty
               /\ rel.id < res.id
               /\ rel.date <= res.date
               /\ rel.ticketId = last'.ticketId /\ res.ticketId = last'.ticketId ]_vars

\* a ticket that had reserved one part reserves another
C26_Witness ==
  /\ last.op = "reserve" /\ last.ok
  /\ last.prev.op = "reserve" /\ last.prev.ok /\ last.prev.ticketId = last.ticketId
  /\ last.pre.partId # "" /\ last.pre.partId # last.partId
  /\ Len(movements) >= 3
  /\ movements[1].type = "RESERVE" /\ movements[2].type = "RELEASE"
  /\ movements[3].type = "RESERVE"

\* C27: a successful release lowers the linked part's stockReserved by the
\* ticket's partQty, clamped at 0, appends one RELEASE movement, sets
\* needsPart to false and leaves the ticket's partId, partName, partQty and
\* status and every part's stockOnHand as they were.
C27_ReleaseFrame ==
  [][ (last'.op = "release" /\ last'.ok) =>
        LET ti == CalledTicket(last')
            t == tickets[ti]
            u == tickets'[ti]
        IN  /\ ti # 0 /\ u.id = t.id
            /\ \A i \in DOMAIN parts :
                 /\ parts[i].id = t.partId =>
                      parts'[i].stockReserved = Max2(0, parts[i].stockReserved - t.partQty)
                 /\ parts'[i].stockOnHand = parts[i].stockOnHand
            /\ Len(newMovements) = 1
            /\ newMovements[1].type = "RELEASE" /\ newMovements[1].partId = t.partId
            /\ newMovements[1].qty = t.partQty /\ newMovements[1].ticketId = t.id
            /\ ~u.needsPart
            /\ u.partId = t.partId /\ u.partName = t.partName /\ u.partQty = t.partQty
            /\ u.status = t.status ]_vars

\* a reservation of 2 has been released: the ticket still names the part
C27_Witness ==
  /\ last.op = "release" /\ last.ok
  /\ CalledTicket(last) # 0
  /\ LET t == tickets[CalledTicket(last)]
     IN  ~t.needsPart /\ t.partId = "P-005" /\ t.partQty = 2 /\ t.status = "WAITING_PART"
  /\ movements[1].type = "RELEASE" /\ movements[1].qty = 2

\* the units an order's line items items[1..k] carry for the part pid
RECURSIVE orderedQty(_, _, _)
orderedQty(items, pid, k) ==
  IF k = 0 THEN 0
  ELSE orderedQty(items, pid, k - 1) + (IF items[k].partId = pid THEN items[k].qty ELSE 0)

\* C28: a successful receivePO raises each part's stockOnHand by the sum of
\* the quantities of all the order's line items for that part, appends one
\* RECEIVE movement per line item and exactly one PO_RECEIVED movement, makes
\* the order RECEIVED and changes no stockReserved.
C28_ReceiveCredits ==
  [][ (last'.op = "receivePO" /\ last'.ok) =>
        LET oi == Find(pos, last'.poId)
            po == pos[oi]
            n == Len(po.items)
        IN  /\ oi # 0
            /\ \A i \in DOMAIN parts :
                 /\ parts'[i].stockOnHand =
                      parts[i].stockOnHand + orderedQty(po.items, parts[i].id, n)
                 /\ parts'[i].stockReserved = parts[i].stockReserved
            /\ Len(newMovements) = n + 1
            /\ newMovements[1].type = "PO_RECEIVED"
            /\ \A k \in 1..n : newMovements[k + 1].type = "RECEIVE"
            /\ pos'[oi].id = po.id /\ pos'[oi].status = "RECEIVED" ]_vars

\* C29: adjustStock works on the delta truncated to an integer (last.qty).
\* A zero delta is rejected and nothing changes.  A successful call sets the
\* part's stockOnHand to max(0, stockOnHand + delta), appends exactly one
\* ADJUST movement whose qty is the absolute value of delta, and leaves every
\* stockReserved, the other parts, the tickets and the orders as they were.
C29_AdjustStock ==
  [][ last'.op = "adjustStock" =>
        LET delta == last'.qty
            abs == IF delta < 0 THEN -delta ELSE delta
        IN  /\ delta = 0 =>
                 /\ ~last'.ok
                 /\ UNCHANGED <<tickets, parts, pos, movements>>
            /\ last'.ok =>
                 /\ delta # 0
                 /\ \A i \in DOMAIN parts :
                      /\ parts'[i].stockReserved = parts[i].stockReserved
                      /\ IF parts[i].id = last'.partId
                         THEN parts'[i].stockOnHand = Max2(0, parts[i].stockOnHand + delta)
                         ELSE parts'[i] = parts[i]
                 /\ Len(newMovements) = 1
                 /\ newMovements[1].type = "ADJUST" /\ newMovements[1].qty = abs
                 /\ newMovements[1].partId = last'.partId
                 /\ UNCHANGED <<tickets, pos>> ]_vars

\* a reserved part is adjusted by -2 with one unit on hand: the stock is
\* clamped at 0 and the movement carries 2
C29_Witness ==
  /\ last.op = "adjustStock" /\ last.ok /\ last.qty = -2
  /\ CalledPart(last) # 0
  /\ parts[CalledPart(last)].stockOnHand = 0
  /\ parts[CalledPart(last)].stockReserved = 1
  /\ movements[1].type = "ADJUST" /\ movements[1].qty = 2

\* C30: two reserve calls for different tickets never both succeed on a part
\* whose available stock covers only one of them, also when both are made
\* before the snapshot is refreshed: reservation alone never takes a part
\* from stockReserved <= stockOnHand to stockReserved > stockOnHand.
C30_NoDoubleReserve ==
  [][ (last'.op \in {"reserve", "reservePair"} /\ reservedWithinOnHand(parts)) =>
        reservedWithinOnHand(parts') ]_vars

====
